---- MODULE Spec2Model ----
(***************************************************************************)
(* Model of the business-information extraction pipeline of Kara-Solutions *)
(* (scripts/data_cleaning.py, src/telegram_scraper/scraper.py,             *)
(* src/database).                                                          *)
(*                                                                         *)
(* A Python str is a sequence of characters; a character is a one-letter   *)
(* string, or the name "Uxxxx" of a code point outside ASCII.  A Python    *)
(* value that may or may not be a str is a record [kind, s, n].            *)
(***************************************************************************)
EXTENDS Integers, Sequences, FiniteSets, TLC

VARIABLES
    \* the normalizer alone: its argument, its result, the result of the result
    text, cleaned, recleaned, n_pc,
    \* an extractor alone: its argument, which of the two implementations is
    \* called, and the outcome of the call
    e_text, e_impl, e_out,
    \* a batch on its way to the database: which pipeline handles it (the data
    \* cleaner or the scraper), the messages of the input, the position of the
    \* pipeline and of its loop, what it has built (messages_data, media_data),
    \* the messages the per-message handler skipped, the session (new: added
    \* and not flushed, tx: flushed and not committed), the committed tables,
    \* the result of save_to_database, the number of the call, and the stats
    \* of process_all_files
    path, raw, pc, idx, messages_data, media_data, skipped, new, tx, db,
    result, calls, stats,
    \* the object detector: the media_files table, the detected_objects table,
    \* the position of process_media_files and of its loop, the files its
    \* query selected, its stats, the number of the run, and the files counted
    \* in 'processed' with the run that counted them
    media_table, detected_objects, det_pc, det_idx, media_files, det_stats,
    det_run, processed,
    \* the migration of one table: the SQLite table, the PostgreSQL table,
    \* the arguments and locals of migrate_table, its position and the value
    \* it returned
    sqlite_table, pg_table, batch_size, total_rows, offset, migrated_rows,
    mig_pc, migrated,
    \* the integration pipeline: what the run finds on the machine, its
    \* position, the steps it ran with what each returned, what it returned
    \* and the summary report
    env, int_pc, ran, int_result, report

normVars == <<text, cleaned, recleaned, n_pc>>
extVars == <<e_text, e_impl, e_out>>
pipeVars ==
    <<path, raw, pc, idx, messages_data, media_data, skipped, new, tx, db,
      result, calls, stats>>
detVars ==
    <<media_table, detected_objects, det_pc, det_idx, media_files, det_stats,
      det_run, processed>>
migVars ==
    <<sqlite_table, pg_table, batch_size, total_rows, offset, migrated_rows,
      mig_pc, migrated>>
intVars == <<env, int_pc, ran, int_result, report>>
toolVars == <<detVars, migVars, intVars>>
vars ==
    <<text, cleaned, recleaned, n_pc, e_text, e_impl, e_out,
      path, raw, pc, idx, messages_data, media_data, skipped, new, tx, db,
      result, calls, stats,
      media_table, detected_objects, det_pc, det_idx, media_files, det_stats,
      det_run, processed,
      sqlite_table, pg_table, batch_size, total_rows, offset, migrated_rows,
      mig_pc, migrated,
      env, int_pc, ran, int_result, report>>

(***************************************************************************)
(* Python values                                                           *)
(***************************************************************************)
PyStr(s) == [kind |-> "str", s |-> s, n |-> 0]
PyInt(i) == [kind |-> "int", s |-> <<>>, n |-> i]
PyNone == [kind |-> "none", s |-> <<>>, n |-> 0]
\* The placeholder of a variable that holds no value yet.
Unset == [kind |-> "unset", s |-> <<>>, n |-> 0]
\* The outcome of a call that raised instead of returning.
Raised == [kind |-> "raised", s |-> <<>>, n |-> 0]

\* Python truthiness: None, "" and 0 are falsy.
Truthy(v) ==
    CASE v.kind = "str" -> v.s # <<>>
      [] v.kind = "int" -> v.n # 0
      [] OTHER -> FALSE

(***************************************************************************)
(* Character classes                                                       *)
(***************************************************************************)
Digits == {"0", "1", "2", "3", "4", "5", "6", "7", "8", "9"}
LowerSeq == <<"a", "b", "c", "d", "e", "f", "g", "h", "i", "j", "k", "l", "m",
              "n", "o", "p", "q", "r", "s", "t", "u", "v", "w", "x", "y", "z">>
UpperSeq == <<"A", "B", "C", "D", "E", "F", "G", "H", "I", "J", "K", "L", "M",
              "N", "O", "P", "Q", "R", "S", "T", "U", "V", "W", "X", "Y", "Z">>
LowerLetters == {LowerSeq[i] : i \in DOMAIN LowerSeq}
UpperLetters == {UpperSeq[i] : i \in DOMAIN UpperSeq}
\* The Ethiopic letters (block U+1200..U+137F) the patterns name.
EthiopicLetters ==
    {"U1265", "U122D", "U12A0", "U12F2", "U1235", "U1260", "U1263", "U1266",
     "U120C", "U1352", "U12EB", "U1233", "U1218", "U12AB", "U1276", "U1320",
     "U12CB", "U1275", "U121B", "U1273", "U12F4", "U120A", "U1268", "U122A",
     "U120B", "U12AD", "U12F5", "U1228", "U130B"}
\* U+1362, the Ethiopic full stop: in the block, neither a letter nor \w.
EthiopicPunct == {"U1362"}
\* str.isspace / the regex class \s
Whitespace == {" ", "\n", "\t"}
\* str.isalpha
IsAlpha(c) == c \in LowerLetters \cup UpperLetters \cup EthiopicLetters
\* the regex class \d
IsDigit(c) == c \in Digits
\* the regex class \w
IsWord(c) == IsAlpha(c) \/ IsDigit(c) \/ c = "_"
\* str.lower on one character
ToLower(c) ==
    IF c \in UpperLetters
    THEN LowerSeq[CHOOSE i \in DOMAIN UpperSeq : UpperSeq[i] = c]
    ELSE c

(***************************************************************************)
(* String helpers                                                          *)
(***************************************************************************)
RECURSIVE LStrip(_)
LStrip(s) == IF s # <<>> /\ Head(s) \in Whitespace THEN LStrip(Tail(s)) ELSE s

RECURSIVE RStrip(_)
RStrip(s) ==
    IF s # <<>> /\ s[Len(s)] \in Whitespace
    THEN RStrip(SubSeq(s, 1, Len(s) - 1))
    ELSE s

\* str.strip()
Strip(s) == RStrip(LStrip(s))

\* re.sub(r'\s+', ' ', s): every maximal run of whitespace becomes one space
CollapseWhitespace(s) ==
    LET \* the first character of a run becomes the space, the others go
        marked == [k \in 1..Len(s) |->
                     IF s[k] \notin Whitespace THEN s[k]
                     ELSE IF k > 1 /\ s[k - 1] \in Whitespace THEN "" ELSE " "]
        Stays(c) == c # ""
    IN SelectSeq(marked, Stays)

\* The punctuation the character class of clean_text lists.
AllowedPunct ==
    {".", ",", "!", "?", "@", "#", "$", "%", "&", "*", "(", ")", "-", "+",
     "=", "<", ">", "[", "]", "{", "}", "|", ";", ":", "'", "\""}

\* A character the class [^\w\sሀ-፿.,!?@#$%&*()\-+=<>\[\]{}|;:'"\n]
\* does NOT match, i.e. one that re.sub(..., '', text) keeps.
KeptChar(c) ==
    \/ IsWord(c)
    \/ c \in Whitespace
    \/ c \in EthiopicLetters \cup EthiopicPunct
    \/ c \in AllowedPunct

\* re.sub(r'[^...]', '', s): the other characters are deleted, not replaced
RemoveSpecial(s) == SelectSeq(s, KeptChar)

\* re.sub(r'\n+', '\n', s)
NormalizeLineBreaks(s) ==
    LET marked == [k \in 1..Len(s) |->
                     IF s[k] = "\n" /\ k > 1 /\ s[k - 1] = "\n" THEN "" ELSE s[k]]
        Stays(c) == c # ""
    IN SelectSeq(marked, Stays)

\* CleanStr without the strip() of the return statement.
CleanStr_NoFinalStrip(s) ==
    NormalizeLineBreaks(RemoveSpecial(CollapseWhitespace(Strip(s))))

\* clean_text on a str that is not empty
CleanStr(s) ==
    Strip(NormalizeLineBreaks(RemoveSpecial(CollapseWhitespace(Strip(s)))))

\* TelegramDataCleaner.clean_text: a falsy argument gives ""; any other value
\* that is not a str has no strip() and the call raises AttributeError.
clean_text(v) ==
    IF ~Truthy(v) THEN PyStr(<<>>)
    ELSE IF v.kind = "str" THEN PyStr(CleanStr(v.s))
    ELSE Raised

(***************************************************************************)
(* Regular-expression helpers.  Positions are 1-based; a matcher gives the *)
(* position after the match, or 0 when there is no match at that position. *)
(***************************************************************************)
\* the least number of a set of positions that is not empty
Least(S) == CHOOSE j \in S : \A k \in S : j <= k

\* Whether keyword kw stands at position i of t (re.IGNORECASE when ci).
StartsWithAt(t, i, kw, ci) ==
    /\ i >= 1
    /\ i + Len(kw) - 1 <= Len(t)
    /\ \A k \in 1..Len(kw) :
          IF ci THEN ToLower(t[i + k - 1]) = ToLower(kw[k])
          ELSE t[i + k - 1] = kw[k]

\* The first keyword of the alternation kws that stands at i: the position
\* after it, or 0.
RECURSIVE AltEnd(_, _, _, _)
AltEnd(t, i, kws, ci) ==
    IF kws = <<>> THEN 0
    ELSE IF StartsWithAt(t, i, Head(kws), ci) THEN i + Len(Head(kws))
    ELSE AltEnd(t, i, Tail(kws), ci)

\* \s* from i: the first position that holds no whitespace
RECURSIVE SkipWs(_, _)
SkipWs(t, i) ==
    IF i <= Len(t) /\ t[i] \in Whitespace THEN SkipWs(t, i + 1) ELSE i

\* \d* from i: the first position that holds no digit
RECURSIVE SkipDigits(_, _)
SkipDigits(t, i) ==
    IF i <= Len(t) /\ IsDigit(t[i]) THEN SkipDigits(t, i + 1) ELSE i

\* \d{n} at i
DigitsAt(t, i, n) ==
    /\ i + n - 1 <= Len(t)
    /\ \A k \in i..(i + n - 1) : IsDigit(t[k])

\* \b at i: exactly one of the characters before and at i is a \w
WordBoundary(t, i) ==
    LET before == i > 1 /\ i - 1 <= Len(t) /\ IsWord(t[i - 1])
        after == i >= 1 /\ i <= Len(t) /\ IsWord(t[i])
    IN before # after

(***************************************************************************)
(* TelegramDataCleaner.business_patterns                                   *)
(***************************************************************************)
Birr == <<"b", "i", "r", "r">>
ETB == <<"E", "T", "B">>
AmBirr == <<"U1265", "U122D">>
PriceKeywords == <<AmBirr, Birr, ETB, <<"$">>>>

\* The first of two match ends that is a match (0 is none).
FirstNonZero(a, b) == IF a # 0 THEN a ELSE b

\* (?:\+251|0)[79]\d{8}|\b\d{10}\b, where p is the position after the prefix
\* (?:\+251|0) at i, or 0
PhoneAfterPrefix(t, i, p) ==
    IF p # 0 /\ p <= Len(t) /\ t[p] \in {"7", "9"} /\ DigitsAt(t, p + 1, 8)
    THEN p + 9
    ELSE IF WordBoundary(t, i) /\ DigitsAt(t, i, 10) /\ WordBoundary(t, i + 10)
         THEN i + 10
         ELSE 0

PhoneEnd(t, i) ==
    PhoneAfterPrefix(t, i, AltEnd(t, i, << <<"+", "2", "5", "1">>, <<"0">> >>, FALSE))

\* (?:[.,]\d+)? at d, greedy
FractionEnd(t, d) ==
    IF d + 1 <= Len(t) /\ t[d] \in {".", ","} /\ IsDigit(t[d + 1])
    THEN SkipDigits(t, d + 1)
    ELSE d

\* \d+(?:[.,]\d+)? at i, greedy: the position after it, or 0
AmountEnd(t, i) ==
    IF i <= Len(t) /\ IsDigit(t[i]) THEN FractionEnd(t, SkipDigits(t, i)) ELSE 0

\* \s*\d+(?:[.,]\d+)? after the keyword that ends before k (0: no keyword)
AmountAfter(t, k) == IF k = 0 THEN 0 ELSE AmountEnd(t, SkipWs(t, k))

\* \s*(?:KW) after the amount that ends before b (0: no amount)
KeywordAfter(t, b) ==
    IF b = 0 THEN 0 ELSE AltEnd(t, SkipWs(t, b), PriceKeywords, TRUE)

\* (?:KW)\s*\d+(?:[.,]\d+)?|\d+(?:[.,]\d+)?\s*(?:KW), re.IGNORECASE
PriceEnd(t, i) ==
    FirstNonZero(AmountAfter(t, AltEnd(t, i, PriceKeywords, TRUE)),
                 KeywordAfter(t, AmountEnd(t, i)))

AmAddis == <<"U12A0", "U12F2", "U1235">>
AmAbaba == <<"U12A0", "U1260", "U1263">>
Addis == <<"a", "d", "d", "i", "s">>
Ababa == <<"a", "b", "a", "b", "a">>
\* the gazetteer after the two "addis ababa" spellings
PlaceNames ==
    << <<"U1266", "U120C">>, <<"b", "o", "l", "e">>,
       <<"U1352", "U12EB", "U1233">>, <<"p", "i", "a", "s", "s", "a">>,
       <<"U1218", "U122D", "U12AB", "U1276">>,
       <<"m", "e", "r", "c", "a", "t", "o">> >>

\* first\s*second at i
TwoWordsEnd(t, i, first, second) ==
    IF StartsWithAt(t, i, first, TRUE)
    THEN AltEnd(t, SkipWs(t, i + Len(first)), <<second>>, TRUE)
    ELSE 0

\* (?:አዲስ\s*አበባ|addis\s*ababa|ቦሌ|bole|ፒያሳ|piassa|መርካቶ|mercato), re.IGNORECASE
AddressEnd(t, i) ==
    FirstNonZero(TwoWordsEnd(t, i, AmAddis, AmAbaba),
                 FirstNonZero(TwoWordsEnd(t, i, Addis, Ababa),
                              AltEnd(t, i, PlaceNames, TRUE)))

DayPeriods ==
    << <<"A", "M">>, <<"P", "M">>, <<"U1320", "U12CB", "U1275">>,
       <<"U121B", "U1273">> >>

\* \d{1,2} and the colon at i: the position of the colon, or 0
HourEnd(t, i) ==
    IF DigitsAt(t, i, 2) /\ i + 2 <= Len(t) /\ t[i + 2] = ":" THEN i + 2
    ELSE IF DigitsAt(t, i, 1) /\ i + 1 <= Len(t) /\ t[i + 1] = ":" THEN i + 1
    ELSE 0

\* \d{2} after the colon at c: the position after it, or 0
MinutesEnd(t, c) == IF c = 0 \/ ~DigitsAt(t, c + 1, 2) THEN 0 ELSE c + 3

\* (?:\s*(?:AM|PM|ጠዋት|ማታ))? after the minutes that end before m
PeriodEnd(t, m) ==
    IF m = 0 THEN 0
    ELSE FirstNonZero(AltEnd(t, SkipWs(t, m), DayPeriods, TRUE), m)

\* \d{1,2}:\d{2}(?:\s*(?:AM|PM|ጠዋት|ማታ))?, re.IGNORECASE
TimeEnd(t, i) == PeriodEnd(t, MinutesEnd(t, HourEnd(t, i)))

DeliveryWords ==
    << <<"d", "e", "l", "i", "v", "e", "r", "y">>,
       <<"U12F4", "U120A", "U1268", "U122A">>,
       <<"U1218", "U120B", "U12AD">>,
       <<"U121B", "U12F5", "U1228", "U1235">> >>

\* (?:delivery|ዴሊቨሪ|መላክ|ማድረስ), re.IGNORECASE
DeliveryEnd(t, i) == AltEnd(t, i, DeliveryWords, TRUE)

\* business_patterns[name] matched at position i
business_patterns(name, t, i) ==
    CASE name = "phone" -> PhoneEnd(t, i)
      [] name = "price" -> PriceEnd(t, i)
      [] name = "address" -> AddressEnd(t, i)
      [] name = "time" -> TimeEnd(t, i)
      [] name = "delivery" -> DeliveryEnd(t, i)

\* pattern.findall(t) from position i: the leftmost match, then the matches
\* after it, none overlapping
RECURSIVE FindAllFrom(_, _, _)

MatchStarts(name, t, i) == {j \in i..Len(t) : business_patterns(name, t, j) # 0}

\* The match from j to before e, and the matches after it.
MatchAndRest(name, t, j, e) == <<SubSeq(t, j, e - 1)>> \o FindAllFrom(name, t, e)

MatchAt(name, t, j) == MatchAndRest(name, t, j, business_patterns(name, t, j))

FirstMatchAndRest(name, t, starts) ==
    IF starts = {} THEN <<>> ELSE MatchAt(name, t, Least(starts))

FindAllFrom(name, t, i) == FirstMatchAndRest(name, t, MatchStarts(name, t, i))

findall(name, t) == FindAllFrom(name, t, 1)

\* pattern.search(t) is not None
search(name, t) == \E i \in 1..Len(t) : business_patterns(name, t, i) # 0

\* ', '.join(parts)
RECURSIVE Join(_)
Join(parts) ==
    IF Len(parts) = 0 THEN <<>>
    ELSE IF Len(parts) = 1 THEN parts[1]
    ELSE parts[1] \o <<",", " ">> \o Join(Tail(parts))

\* text.split(sep): the pieces between the separators, at least one
RECURSIVE SplitFrom(_, _, _)

PieceAndRest(t, sep, start, j) ==
    <<SubSeq(t, start, j - 1)>> \o SplitFrom(t, sep, j + 1)

SplitAt(t, sep, start, seps) ==
    IF seps = {} THEN <<SubSeq(t, start, Len(t))>>
    ELSE PieceAndRest(t, sep, start, Least(seps))

SplitFrom(t, sep, start) ==
    SplitAt(t, sep, start, {j \in start..Len(t) : t[j] = sep})

Split(t, sep) == SplitFrom(t, sep, 1)

(***************************************************************************)
(* TelegramDataCleaner.extract_business_info                               *)
(***************************************************************************)
\* BusinessExtraction(): every field None
BusinessExtraction ==
    [business_name |-> PyNone, product_name |-> PyNone, price |-> PyNone,
     contact_info |-> PyNone, address |-> PyNone, opening_hours |-> PyNone,
     delivery_info |-> PyNone]

FieldNames ==
    {"business_name", "product_name", "price", "contact_info", "address",
     "opening_hours", "delivery_info"}

\* ', '.join(matches) when there is a match, else None
JoinOrNone(matches) == IF matches # <<>> THEN PyStr(Join(matches)) ELSE PyNone

\* ', '.join(pattern.findall(text)) when there is a match, else None
JoinedMatches(name, t) == JoinOrNone(findall(name, t))

DeliveryAvailable ==
    <<"D", "e", "l", "i", "v", "e", "r", "y", " ",
      "a", "v", "a", "i", "l", "a", "b", "l", "e">>

\* len(line) > 5
MinNameLen == 5
\* len(line) < 100
MaxNameLen == 100

\* "Reasonable length"
ReasonableLength(line) == Len(line) > MinNameLen /\ Len(line) < MaxNameLen

\* any(char.isalpha() for char in line)
AnyAlpha(line) == \E k \in 1..Len(line) : IsAlpha(line[k])

\* FirstLines without the slice: every line is examined.
FirstLines_All(lines) == lines

\* lines[:3]
FirstLines(lines) == SubSeq(lines, 1, IF Len(lines) < 3 THEN Len(lines) ELSE 3)

\* ProductCandidate without the comparison with business_name.
ProductCandidate_NotCompared(ext, line) == ~Truthy(ext.product_name)

\* The condition of the elif branch that sets product_name.
ProductCandidate(ext, line) ==
    ~Truthy(ext.product_name) /\ ext.business_name # PyStr(line)

\* The body of the loop over the first lines, for one line, after
\* line = line.strip()
NameStep(ext, line) ==
    IF ~ReasonableLength(line) THEN ext
    ELSE IF ~Truthy(ext.business_name) /\ AnyAlpha(line)
         THEN [ext EXCEPT !.business_name = PyStr(line)]
    ELSE IF ProductCandidate(ext, line)
         THEN [ext EXCEPT !.product_name = PyStr(line)]
    ELSE ext

RECURSIVE NameLoop(_, _)
NameLoop(ext, lines) ==
    IF lines = <<>> THEN ext
    ELSE NameLoop(NameStep(ext, Strip(Head(lines))), Tail(lines))

\* extract_business_info on a str that is not empty
ExtractStr(t) ==
    NameLoop([BusinessExtraction EXCEPT
                !.contact_info = JoinedMatches("phone", t),
                !.price = JoinedMatches("price", t),
                !.address = JoinedMatches("address", t),
                !.opening_hours = JoinedMatches("time", t),
                !.delivery_info =
                    IF search("delivery", t) THEN PyStr(DeliveryAvailable)
                    ELSE PyNone],
             FirstLines(Split(t, "\n")))

\* The outcome of a call: the extraction it returned, or that it raised.
Returned(ext) == [called |-> TRUE, raised |-> FALSE, value |-> ext]
RaisedError == [called |-> TRUE, raised |-> TRUE, value |-> BusinessExtraction]
NotCalled == [called |-> FALSE, raised |-> FALSE, value |-> BusinessExtraction]

\* TelegramDataCleaner.extract_business_info: a falsy argument gives the empty
\* extraction; for any other value that is not a str, pattern.findall raises
\* TypeError.
extract_business_info(v) ==
    IF ~Truthy(v) THEN Returned(BusinessExtraction)
    ELSE IF v.kind = "str" THEN Returned(ExtractStr(v.s))
    ELSE RaisedError

(***************************************************************************)
(* TelegramScraper.extract_business_info                                   *)
(***************************************************************************)
\* A pattern of price_patterns or contact_patterns matched at position i
\* gives its group 1 as <<first, position after>>, or <<0, 0>>.

\* \d+(?:,\d{3})*(?:\.\d{2})? : the groups of three digits after position d
RECURSIVE ThousandsEnd(_, _)
ThousandsEnd(t, d) ==
    IF d <= Len(t) /\ t[d] = "," /\ DigitsAt(t, d + 1, 3)
    THEN ThousandsEnd(t, d + 4)
    ELSE d

\* (?:\.\d{2})? at d
DecimalsEnd(t, d) ==
    IF d <= Len(t) /\ t[d] = "." /\ DigitsAt(t, d + 1, 2) THEN d + 3 ELSE d

\* \d+(?:,\d{3})*(?:\.\d{2})? at i, greedy: the position after it, or 0
NumberEnd(t, i) ==
    IF i <= Len(t) /\ IsDigit(t[i])
    THEN DecimalsEnd(t, ThousandsEnd(t, SkipDigits(t, i)))
    ELSE 0

\* :?\s* at w
ColonThen(t, w) == IF w <= Len(t) /\ t[w] = ":" THEN SkipWs(t, w + 1) ELSE w

\* \s*:?\s* from i
SkipColon(t, i) == ColonThen(t, SkipWs(t, i))

\* \s*:?\s* after the keyword that ends before k (0: no keyword)
AfterKeyword(t, k) == IF k = 0 THEN 0 ELSE SkipColon(t, k)

Br == <<"b", "r">>
Price == <<"p", "r", "i", "c", "e">>
AmPrice == <<"U12CB", "U130B">>

\* Group 1 from g to before e when, after it, \s*(?:kws) matches
GroupBeforeKeyword(t, g, e, kws) ==
    IF e # 0 /\ AltEnd(t, SkipWs(t, e), kws, TRUE) # 0 THEN <<g, e>> ELSE <<0, 0>>

\* (NUMBER)\s*(?:kws) at i: group 1 as <<first, position after>>, or <<0, 0>>
AmountBeforeKeyword(t, i, kws) == GroupBeforeKeyword(t, i, NumberEnd(t, i), kws)

\* Group 1 from g to before e (0: no match)
GroupTo(g, e) == IF e # 0 THEN <<g, e>> ELSE <<0, 0>>

\* (NUMBER) at g (0: the keyword did not match)
NumberGroupAt(t, g) == IF g = 0 THEN <<0, 0>> ELSE GroupTo(g, NumberEnd(t, g))

\* (?:price|ዋጋ)\s*:?\s*(NUMBER) at i
AmountAfterPrice(t, i) ==
    NumberGroupAt(t, AfterKeyword(t, AltEnd(t, i, <<Price, AmPrice>>, TRUE)))

\* price_patterns[k] at i
price_patterns(k, t, i) ==
    CASE k = 1 -> AmountBeforeKeyword(t, i, <<Birr, ETB, Br>>)
      [] k = 2 -> AmountAfterPrice(t, i)
      [] k = 3 -> AmountBeforeKeyword(t, i, <<AmBirr>>)

\* [\d\s\-\(\)]* or [\d\s\-]* from i: the first position outside the class
RECURSIVE SkipClass(_, _, _)
SkipClass(t, i, extra) ==
    IF i <= Len(t) /\ (IsDigit(t[i]) \/ t[i] \in Whitespace \/ t[i] \in extra)
    THEN SkipClass(t, i + 1, extra)
    ELSE i

ContactWords ==
    << <<"c", "a", "l", "l">>, <<"c", "o", "n", "t", "a", "c", "t">>,
       <<"p", "h", "o", "n", "e">>, <<"t", "e", "l">> >>

\* the least number of characters after the leading digits of a contact
MinContactTail == 8

\* Group 1 from g when the run from `from` to before e has {8,} characters
TailGroup(g, from, e) ==
    IF e - from >= MinContactTail THEN <<g, e>> ELSE <<0, 0>>

\* \d[\d\s\-\(\)]{8,} at d, within the group that starts at g
ContactRun(t, g, d) ==
    IF d <= Len(t) /\ IsDigit(t[d])
    THEN TailGroup(g, d + 1, SkipClass(t, d + 1, {"-", "(", ")"}))
    ELSE <<0, 0>>

\* ([+]?\d[\d\s\-\(\)]{8,}) at g (0: the keyword did not match)
ContactGroupAt(t, g) ==
    IF g = 0 THEN <<0, 0>>
    ELSE ContactRun(t, g, IF g <= Len(t) /\ t[g] = "+" THEN g + 1 ELSE g)

\* (?:call|contact|phone|tel)\s*:?\s*([+]?\d[\d\s\-\(\)]{8,}) at i
ContactAfterWord(t, i) ==
    ContactGroupAt(t, AfterKeyword(t, AltEnd(t, i, ContactWords, TRUE)))

\* 251[\d\s\-]{8,} at d, within the group that starts at g
CountryCodeRun(t, g, d) ==
    IF StartsWithAt(t, d, <<"2", "5", "1">>, FALSE)
    THEN TailGroup(g, d + 3, SkipClass(t, d + 3, {"-"}))
    ELSE <<0, 0>>

\* ([+]?251[\d\s\-]{8,}) at i
ContactCountryCode(t, i) ==
    CountryCodeRun(t, i, IF i <= Len(t) /\ t[i] = "+" THEN i + 1 ELSE i)

\* (09\d{8}) at i
ContactMobile(t, i) ==
    IF StartsWithAt(t, i, <<"0", "9">>, TRUE) /\ DigitsAt(t, i + 2, 8)
    THEN <<i, i + 10>>
    ELSE <<0, 0>>

\* contact_patterns[k] at i
contact_patterns(k, t, i) ==
    CASE k = 1 -> ContactAfterWord(t, i)
      [] k = 2 -> ContactCountryCode(t, i)
      [] k = 3 -> ContactMobile(t, i)

\* re.search(pattern, t).group(1) for pattern k of the list named kind, at
\* the leftmost position it matches; <<0, 0>> when it matches nowhere
PatternAt(kind, k, t, i) ==
    IF kind = "price" THEN price_patterns(k, t, i) ELSE contact_patterns(k, t, i)

GroupStarts(kind, k, t) ==
    {j \in 1..Len(t) : PatternAt(kind, k, t, j) # <<0, 0>>}

GroupAtFirst(kind, k, t, starts) ==
    IF starts = {} THEN <<0, 0>> ELSE PatternAt(kind, k, t, Least(starts))

SearchGroup(kind, k, t) == GroupAtFirst(kind, k, t, GroupStarts(kind, k, t))

\* for pattern in patterns: match = re.search(...); if match: ...; break
RECURSIVE FirstPattern(_, _, _)

\* match.group(1) when pattern k matched (g), else the patterns after it
GroupOrNext(kind, k, t, g) ==
    IF g # <<0, 0>> THEN PyStr(SubSeq(t, g[1], g[2] - 1))
    ELSE FirstPattern(kind, k + 1, t)

FirstPattern(kind, k, t) ==
    IF k > 3 THEN PyNone ELSE GroupOrNext(kind, k, t, SearchGroup(kind, k, t))

\* str.lower()
LowerStr(t) == [k \in 1..Len(t) |-> ToLower(t[k])]

\* keyword in t
Contains(t, kw) == \E i \in 1..Len(t) : StartsWithAt(t, i, kw, FALSE)

delivery_keywords ==
    << <<"d", "e", "l", "i", "v", "e", "r", "y">>,
       <<"s", "h", "i", "p", "p", "i", "n", "g">>,
       <<"t", "r", "a", "n", "s", "p", "o", "r", "t">>,
       <<"U1218", "U120B", "U12AD">>,
       <<"U121B", "U12F5", "U1228", "U1235">> >>

\* the first sentence of sentences whose lower case holds kw, stripped
RECURSIVE FirstSentenceWith(_, _)
FirstSentenceWith(sentences, kw) ==
    IF sentences = <<>> THEN PyNone
    ELSE IF Contains(LowerStr(Head(sentences)), LowerStr(kw))
         THEN PyStr(Strip(Head(sentences)))
         ELSE FirstSentenceWith(Tail(sentences), kw)

\* the loop over delivery_keywords: the first keyword the text holds decides
RECURSIVE DeliveryLoop(_, _)
DeliveryLoop(kws, t) ==
    IF kws = <<>> THEN PyNone
    ELSE IF Contains(LowerStr(t), LowerStr(Head(kws)))
         THEN FirstSentenceWith(Split(t, "."), Head(kws))
         ELSE DeliveryLoop(Tail(kws), t)

\* extract_business_info on a str that is not empty
ScraperExtractStr(t) ==
    [BusinessExtraction EXCEPT
        !.price = FirstPattern("price", 1, t),
        !.contact_info = FirstPattern("contact", 1, t),
        !.delivery_info = DeliveryLoop(delivery_keywords, t)]

\* TelegramScraper.extract_business_info: a falsy argument gives the dict of
\* None; for any other value that is not a str, re.search raises TypeError.
scraper_extract_business_info(v) ==
    IF ~Truthy(v) THEN Returned(BusinessExtraction)
    ELSE IF v.kind = "str" THEN Returned(ScraperExtractStr(v.s))
    ELSE RaisedError

(***************************************************************************)
(* The database (src/database/models.py) and the session                   *)
(*                                                                         *)
(* A table is the sequence of its rows in insertion order; the primary key *)
(* of a row is its position (autoincrement), and 0 stands for None.  There *)
(* is one channel, so rows carry no channel_id.  src, on a message and on  *)
(* a business record, is <<call, position in the input>> of the message it *)
(* was built from.                                                         *)
(***************************************************************************)
NoRows == [channels |-> {}, messages |-> <<>>, media |-> <<>>, business |-> <<>>]

NoStats ==
    [files_processed |-> 0, channels_created |-> 0, messages_saved |-> 0,
     media_files_saved |-> 0, errors |-> 0]

\* TelegramMessage(...): id is None until the object is flushed
TelegramMessage(message_id, message_text, src) ==
    [id |-> 0, message_id |-> message_id, message_text |-> message_text,
     src |-> src]

\* BusinessInfo(message_id=..., business_name=..., ...)
BusinessInfo(message_id, info, src) ==
    [message_id |-> message_id, fields |-> info, src |-> src]

\* MediaFile(message_id=..., file_name=...)
MediaFile(message_id, file_name) ==
    [message_id |-> message_id, file_name |-> file_name]

\* What a query of the session sees: the committed rows and the rows flushed
\* in the open transaction.  The session is made with autoflush=False, so a
\* query flushes nothing and never sees an object that was only added.
Visible(table) == db[table] \o tx[table]

\* query(TelegramMessage).filter(message_id == ..., channel_id == ...).first():
\* the row, or the row with id 0 when there is none
FirstMessage(message_id) ==
    LET found == SelectSeq(Visible("messages"), LAMBDA r : r.message_id = message_id)
    IN IF found = <<>> THEN TelegramMessage(0, PyNone, <<0, 0>>) ELSE found[1]

\* The primary keys a flush gives to messages, in the order they were added.
Flushed(messages, base) ==
    [k \in 1..Len(messages) |-> [messages[k] EXCEPT !.id = base + k]]

\* NOT NULL on business_info.message_id and media_files.message_id
ViolatesNotNull(objects) ==
    \/ \E k \in 1..Len(objects.business) : objects.business[k].message_id = 0
    \/ \E k \in 1..Len(objects.media) : objects.media[k].message_id = 0

(***************************************************************************)
(* Bounded inputs of the normalizer                                        *)
(***************************************************************************)
MaxNormLen == 5
\* a letter, a space, a line break, a disallowed character
NormAlphabet == {"a", " ", "\n", "~"}
NormStrings == UNION {[1..n -> NormAlphabet] : n \in 0..MaxNormLen}
NormInputs == {PyStr(s) : s \in NormStrings} \cup {PyNone}

(***************************************************************************)
(* The normalizer applied once and applied to its own output               *)
(***************************************************************************)
\* The part of the state a specification does not use.
NormIdle == text = PyNone /\ cleaned = Unset /\ recleaned = Unset /\ n_pc = "idle"
ExtIdle == e_text = PyNone /\ e_impl = "none" /\ e_out = NotCalled
PipeIdle ==
    /\ path = "none" /\ raw = <<>> /\ pc = "idle" /\ idx = 0
    /\ messages_data = <<>> /\ media_data = <<>> /\ skipped = 0
    /\ new = NoRows /\ tx = NoRows /\ db = NoRows
    /\ result = "none" /\ calls = 0 /\ stats = NoStats

NoDetectorStats ==
    [total_files |-> 0, processed |-> 0, failed |-> 0, total_detections |-> 0]

DetIdle ==
    /\ media_table = <<>> /\ detected_objects = <<>> /\ det_pc = "idle"
    /\ det_idx = 0 /\ media_files = <<>> /\ det_stats = NoDetectorStats
    /\ det_run = 0 /\ processed = {}
MigIdle ==
    /\ sqlite_table = <<>> /\ pg_table = <<>> /\ batch_size = 0
    /\ total_rows = 0 /\ offset = 0 /\ migrated_rows = 0 /\ mig_pc = "idle"
    /\ migrated = 0
Environments ==
    [env_file : BOOLEAN, scraped_data : BOOLEAN, skip_deps : BOOLEAN,
     pip_installs : BOOLEAN, dbt_project : BOOLEAN, dbt_installed : BOOLEAN,
     dbt_deps : BOOLEAN, migration : BOOLEAN, dbt_run : BOOLEAN]
NoEnvironment == [f \in DOMAIN (CHOOSE e \in Environments : TRUE) |-> FALSE]
IntIdle ==
    /\ env = NoEnvironment /\ int_pc = "idle" /\ ran = <<>>
    /\ int_result = "none" /\ report = "none"
ToolsIdle == DetIdle /\ MigIdle /\ IntIdle

NormInit ==
    /\ text \in NormInputs
    /\ cleaned = Unset
    /\ recleaned = Unset
    /\ n_pc = "start"
    /\ ExtIdle
    /\ PipeIdle
    /\ ToolsIdle

CleanOnce ==
    /\ n_pc = "start"
    /\ cleaned' = clean_text(text)
    /\ n_pc' = "once"
    /\ UNCHANGED <<text, recleaned, extVars, pipeVars, toolVars>>

CleanTwice ==
    /\ n_pc = "once"
    /\ recleaned' = clean_text(cleaned)
    /\ n_pc' = "twice"
    /\ UNCHANGED <<text, cleaned, extVars, pipeVars, toolVars>>

NormNext == CleanOnce \/ CleanTwice

SpecNorm == NormInit /\ [][NormNext]_vars

\* C1: normalization is idempotent: clean_text(clean_text(s)) = clean_text(s)
\* for every input, a disallowed character between two whitespace characters
\* included.
C1_Idempotent == n_pc = "twice" => recleaned = cleaned

\* C1: the input holds a disallowed character between two whitespace
\* characters and both calls have returned.
C1_Case ==
    /\ n_pc = "twice"
    /\ \E k \in 2..(Len(text.s) - 1) :
          /\ ~KeptChar(text.s[k])
          /\ text.s[k - 1] \in Whitespace
          /\ text.s[k + 1] \in Whitespace

\* A str that neither begins nor ends with a whitespace character.
Trimmed(v) ==
    /\ v.kind = "str"
    /\ v.s # <<>> => (v.s[1] \notin Whitespace /\ v.s[Len(v.s)] \notin Whitespace)

\* C18: the normalizer returns a str, the empty str for an empty or absent
\* text, and its result neither begins nor ends with a whitespace character.
C18_TrimmedString ==
    n_pc # "start" =>
        /\ Trimmed(cleaned)
        /\ ~Truthy(text) => cleaned = PyStr(<<>>)

\* C18: the text begins with a disallowed character and a whitespace
\* character, and the result is not empty.
C18_Case ==
    /\ n_pc = "once"
    /\ Len(text.s) >= 3
    /\ ~KeptChar(text.s[1])
    /\ text.s[2] \in Whitespace
    /\ cleaned.kind = "str"
    /\ cleaned.s # <<>>

(***************************************************************************)
(* Bounded inputs of the extractors                                        *)
(***************************************************************************)
Rep(c, n) == [k \in 1..n |-> c]

KaraPharma == <<"K", "a", "r", "a", " ", "P", "h", "a", "r", "m", "a">>
PainRelief == <<"P", "a", "i", "n", " ", "r", "e", "l", "i", "e", "f">>
Mobile == <<"0", "9", "1", "1", "2", "2", "3", "3", "4", "4">>
Bole == <<"b", "o", "l", "e">>

\* Lines of every kind the name heuristics tell apart: two distinct names, a
\* name within whitespace, a line of digits (a phone number), a short line
\* (a place name).
CoreLines ==
    {KaraPharma, PainRelief, <<" ">> \o KaraPharma \o <<" ", " ">>, Mobile, Bole}
\* Lines at the bounds of the "reasonable length".
BoundaryLines ==
    {Rep("a", MinNameLen), Rep("a", MinNameLen + 1),
     Rep("a", MaxNameLen - 1), Rep("a", MaxNameLen)}

MaxLines == 4

\* '\n'.join(lines)
RECURSIVE JoinLines(_)
JoinLines(lines) ==
    IF Len(lines) = 0 THEN <<>>
    ELSE IF Len(lines) = 1 THEN lines[1]
    ELSE lines[1] \o <<"\n">> \o JoinLines(Tail(lines))

\* The sequences of 1..MaxLines lines drawn from a set of lines.
LineSeqs(lines) == UNION {[1..n -> lines] : n \in 1..MaxLines}

\* Texts of up to MaxLines lines: of core lines, and of one boundary line
\* among lines that are a name (KaraPharma) or none (Bole).
LineTexts ==
    {JoinLines(f) : f \in LineSeqs(CoreLines)}
    \cup {JoinLines(f) :
            f \in {g \in LineSeqs({KaraPharma, Bole} \cup BoundaryLines) :
                      Cardinality({k \in DOMAIN g : g[k] \in BoundaryLines}) = 1}}

\* Words the field patterns tell apart: two phone numbers, two prices, a
\* time and a day period, a delivery keyword, and a sentence with another
\* delivery keyword.
Mobile2 == <<"0", "9", "2", "2", "3", "3", "4", "4", "5", "5">>
Price150 == <<"1", "5", "0", " ", "b", "i", "r", "r">>
Price200 == <<"2", "0", "0", " ", "b", "i", "r", "r">>
NineOClock == <<"9", ":", "0", "0">>
Morning == <<"A", "M">>
Delivery == <<"d", "e", "l", "i", "v", "e", "r", "y">>
ShippingSentence == <<"s", "h", "i", "p", "p", "i", "n", "g", ".">>

FieldWords ==
    {Mobile, Mobile2, Price150, Price200, NineOClock, Morning, Delivery,
     ShippingSentence}

MaxWords == 3

\* ' '.join(words)
RECURSIVE JoinWords(_)
JoinWords(words) ==
    IF Len(words) = 0 THEN <<>>
    ELSE IF Len(words) = 1 THEN words[1]
    ELSE words[1] \o <<" ">> \o JoinWords(Tail(words))

\* Texts of one line, of up to MaxWords words.
FieldTexts ==
    {JoinWords(f) : f \in UNION {[1..n -> FieldWords] : n \in 1..MaxWords}}

\* str arguments, the empty str and the absent text included, and values that
\* are no str
ExtractInputs ==
    {PyStr(t) : t \in LineTexts \cup FieldTexts}
        \cup {PyStr(<<>>), PyNone, PyInt(0), PyInt(123)}

(***************************************************************************)
(* An extractor called on one argument                                     *)
(***************************************************************************)
ExtractInit ==
    /\ e_text \in ExtractInputs
    /\ e_impl \in {"cleaner", "scraper"}
    /\ e_out = NotCalled
    /\ NormIdle
    /\ PipeIdle
    /\ ToolsIdle

CleanerExtract ==
    /\ e_impl = "cleaner"
    /\ ~e_out.called
    /\ e_out' = extract_business_info(e_text)
    /\ UNCHANGED <<e_text, e_impl, normVars, pipeVars, toolVars>>

ScraperExtract ==
    /\ e_impl = "scraper"
    /\ ~e_out.called
    /\ e_out' = scraper_extract_business_info(e_text)
    /\ UNCHANGED <<e_text, e_impl, normVars, pipeVars, toolVars>>

ExtractNext == CleanerExtract \/ ScraperExtract

SpecExtract == ExtractInit /\ [][ExtractNext]_vars

\* The outcome of extract_business_info of the data cleaner, once it returned.
CleanerReturned == e_impl = "cleaner" /\ e_out.called /\ ~e_out.raised

\* The lines of the argument (none when it is no str).
ArgLines == IF e_text.kind = "str" THEN Split(e_text.s, "\n") ELSE <<>>

\* A name candidate: 6 to 99 characters once trimmed, one of them alphabetic.
Qualifies(line) ==
    /\ Len(Strip(line)) >= 6
    /\ Len(Strip(line)) <= 99
    /\ \E k \in 1..Len(line) : IsAlpha(line[k])

\* The positions, among the first three lines, of the name candidates.
Candidates(lines) == {k \in 1..Len(lines) : k <= 3 /\ Qualifies(lines[k])}

\* C6: the field extractors never raise, whatever the argument: empty, absent
\* or a truthy value that is no str.
C6_NeverRaises == e_out.called => ~e_out.raised

\* C7: business_name is the first of the first three lines that is a name
\* candidate (trimmed length 6..99, an alphabetic character), and null when
\* there is none; a line at position four or later never becomes the name.
C7_BusinessName ==
    CleanerReturned =>
        e_out.value.business_name =
            IF Candidates(ArgLines) = {} THEN PyNone
            ELSE PyStr(Strip(ArgLines[Least(Candidates(ArgLines))]))

\* C7: the first line is no candidate, the second is and became the name, and
\* a different candidate stands at position four.
C7_Case ==
    /\ CleanerReturned
    /\ Len(ArgLines) >= 4
    /\ ~Qualifies(ArgLines[1])
    /\ Qualifies(ArgLines[2])
    /\ Qualifies(ArgLines[4])
    /\ ArgLines[4] # ArgLines[2]
    /\ e_out.value.business_name = PyStr(Strip(ArgLines[2]))

\* C8: product_name is the next name candidate after the business_name line
\* that differs from business_name, and null when there is none: never a line
\* without an alphabetic character, never set while business_name is null.
C8_ProductName ==
    CleanerReturned =>
        e_out.value.product_name =
            IF Candidates(ArgLines) = {} THEN PyNone
            ELSE LET b == Least(Candidates(ArgLines))
                     next == {k \in Candidates(ArgLines) :
                                 k > b /\ Strip(ArgLines[k]) # Strip(ArgLines[b])}
                 IN IF next = {} THEN PyNone
                    ELSE PyStr(Strip(ArgLines[Least(next)]))

\* C9: when business_name and product_name are both set, they differ.
C9_NamesDistinct ==
    (e_out.called /\ Truthy(e_out.value.business_name)
                  /\ Truthy(e_out.value.product_name))
        => e_out.value.business_name # e_out.value.product_name

\* C9: both names are set, and the business_name line stands twice among the
\* first three lines.
C9_Case ==
    /\ CleanerReturned
    /\ Truthy(e_out.value.business_name)
    /\ Truthy(e_out.value.product_name)
    /\ \E j, k \in 1..Len(ArgLines) :
          /\ j < k
          /\ k <= 3
          /\ PyStr(Strip(ArgLines[j])) = e_out.value.business_name
          /\ PyStr(Strip(ArgLines[k])) = e_out.value.business_name

(***************************************************************************)
(* Bounded inputs of the pipelines                                         *)
(***************************************************************************)
\* data.get('name', ...)
ChannelName == "chan"

Greeting == <<"h", "i">>

\* A message of the input: its id, its text (a str, None for an absent text,
\* or a value that is no str, such as the number 123), whether it carries a
\* photo, and whether its 'replies' entry is well formed (a dict or absent).
RawMessage(id, txt, photo, replies_ok) ==
    [id |-> id, text |-> txt, photo |-> photo, replies_ok |-> replies_ok]

\* Texts: two name lines, a place name, a phone number, small talk, the
\* empty text, the absent text.
TwoLines == KaraPharma \o <<"\n">> \o PainRelief

\* The messages Telegram can deliver: the text is a str or None.
ScrapedShapes ==
    {<<PyStr(TwoLines), FALSE, TRUE>>, <<PyStr(Bole), FALSE, TRUE>>,
     <<PyStr(Mobile), TRUE, TRUE>>, <<PyStr(Greeting), TRUE, TRUE>>,
     <<PyStr(<<>>), FALSE, TRUE>>, <<PyNone, FALSE, TRUE>>}

\* The messages a JSON file can hold: also a text that is no str, and a
\* 'replies' entry that is no dict.
FileShapes ==
    ScrapedShapes \cup {<<PyInt(123), FALSE, TRUE>>, <<PyStr(Greeting), FALSE, FALSE>>}

MessageIds == {1, 2}

RawMessages(shapes) ==
    {RawMessage(id, sh[1], sh[2], sh[3]) : id \in MessageIds, sh \in shapes}

MaxBatch == 2
MaxCalls == 2

Batches(shapes) == UNION {[1..n -> RawMessages(shapes)] : n \in 0..MaxBatch}

(***************************************************************************)
(* The data cleaner: process_json_file, then save_to_database, as          *)
(* process_all_files calls them for one file                               *)
(***************************************************************************)
\* "Clean message text": '' unless msg['text'] is a str (a list of text
\* entities is not among the inputs)
MessageText(msg) ==
    IF msg.text.kind = "str" THEN clean_text(msg.text) ELSE PyStr(<<>>)

\* The loop a phase runs next, or the phase after it when the list is empty.
PhaseOver(list, phase, after) == IF list = <<>> THEN after ELSE phase

\* The body of the loop over data['messages'].  A 'replies' entry that is no
\* dict raises AttributeError at the dict literal: the handler logs a warning
\* and goes on with the next message, nothing appended.
ProcessMessage ==
    /\ path = "cleaner"
    /\ pc = "process"
    /\ idx <= Len(raw)
    /\ LET msg == raw[idx]
       IN IF ~msg.replies_ok
          THEN /\ skipped' = skipped + 1
               /\ UNCHANGED <<messages_data, media_data>>
          ELSE /\ messages_data' =
                    Append(messages_data,
                           [message_id |-> msg.id,
                            message_text |-> MessageText(msg),
                            has_media |-> msg.photo,
                            src |-> <<calls, idx>>])
               /\ media_data' =
                    IF msg.photo
                    THEN Append(media_data,
                                [message_id |-> msg.id, file_name |-> msg.id])
                    ELSE media_data
               /\ UNCHANGED skipped
    /\ idx' = idx + 1
    /\ UNCHANGED <<path, raw, pc, new, tx, db, result, calls, stats>>
    /\ UNCHANGED <<normVars, extVars, toolVars>>

\* process_all_files: "if channel_info and messages_data" fails
NoMessages ==
    /\ path = "cleaner"
    /\ pc = "process"
    /\ idx > Len(raw)
    /\ messages_data = <<>>
    /\ stats' = [stats EXCEPT !.errors = @ + 1]
    /\ pc' = "done"
    /\ UNCHANGED <<path, raw, idx, messages_data, media_data, skipped, new, tx,
                   db, result, calls>>
    /\ UNCHANGED <<normVars, extVars, toolVars>>

\* save_to_database, "Create or get channel": a new channel is added and
\* committed at once
CreateOrGetChannel ==
    /\ path = "cleaner"
    /\ pc = "process"
    /\ idx > Len(raw)
    /\ messages_data # <<>>
    /\ db' = [db EXCEPT !.channels = @ \cup {ChannelName}]
    /\ pc' = "messages"
    /\ idx' = 1
    /\ UNCHANGED <<path, raw, messages_data, media_data, skipped, new, tx,
                   result, calls, stats>>
    /\ UNCHANGED <<normVars, extVars, toolVars>>

\* HasBusinessFields with the test dropped: a record for every message.
HasBusinessFields_Always(info) == TRUE

\* any([business_name, product_name, price, contact_info])
HasBusinessFields(info) ==
    \/ Truthy(info.business_name)
    \/ Truthy(info.product_name)
    \/ Truthy(info.price)
    \/ Truthy(info.contact_info)

\* AddedObjects with the business record put before the records of the
\* messages before it.
AddedObjects_Reversed(msg_data, message, info) ==
    [new EXCEPT
       !.messages = Append(@, message),
       !.business =
           IF Truthy(msg_data.message_text) /\ HasBusinessFields(info)
           THEN <<BusinessInfo(message.id, info, msg_data.src)>> \o @
           ELSE @]

\* AddedObjects with the business record added twice.
AddedObjects_Twice(msg_data, message, info) ==
    [new EXCEPT
       !.messages = Append(@, message),
       !.business =
           IF Truthy(msg_data.message_text) /\ HasBusinessFields(info)
           THEN @ \o <<BusinessInfo(message.id, info, msg_data.src),
                       BusinessInfo(message.id, info, msg_data.src)>>
           ELSE @]

\* The objects "if not existing_msg" adds for msg_data: the message and, when
\* the text is not empty and a field was found (info), its business record,
\* built with message.id as it is then: None, the message not being flushed.
AddedObjects(msg_data, message, info) ==
    [new EXCEPT
       !.messages = Append(@, message),
       !.business =
           IF Truthy(msg_data.message_text) /\ HasBusinessFields(info)
           THEN Append(@, BusinessInfo(message.id, info, msg_data.src))
           ELSE @]

AddedForMessage(msg_data) ==
    AddedObjects(msg_data,
                 TelegramMessage(msg_data.message_id, msg_data.message_text,
                                 msg_data.src),
                 extract_business_info(msg_data.message_text).value)

\* The body of the loop "Save messages"
SaveMessage ==
    /\ path = "cleaner"
    /\ pc = "messages"
    /\ idx <= Len(messages_data)
    /\ LET msg_data == messages_data[idx]
       IN new' = IF FirstMessage(msg_data.message_id).id # 0 THEN new
                 ELSE AddedForMessage(msg_data)
    /\ pc' = IF idx < Len(messages_data) THEN "messages"
             ELSE PhaseOver(media_data, "media", "commit")
    /\ idx' = IF idx < Len(messages_data) THEN idx + 1 ELSE 1
    /\ UNCHANGED <<path, raw, messages_data, media_data, skipped, tx, db,
                   result, calls, stats>>
    /\ UNCHANGED <<normVars, extVars, toolVars>>

\* The body of the loop "Save media files": the message is looked up by a
\* query, and the file added when the message is found and has no such file
SaveMediaFile ==
    /\ path = "cleaner"
    /\ pc = "media"
    /\ idx <= Len(media_data)
    /\ LET item == media_data[idx]
           message == FirstMessage(item.message_id)
           existing_media ==
               \E k \in 1..Len(Visible("media")) :
                   /\ Visible("media")[k].message_id = message.id
                   /\ Visible("media")[k].file_name = item.file_name
       IN new' = IF message.id # 0 /\ ~existing_media
                 THEN [new EXCEPT
                         !.media = Append(@, MediaFile(message.id, item.file_name))]
                 ELSE new
    /\ pc' = IF idx < Len(media_data) THEN "media" ELSE "commit"
    /\ idx' = IF idx < Len(media_data) THEN idx + 1 ELSE 1
    /\ UNCHANGED <<path, raw, messages_data, media_data, skipped, tx, db,
                   result, calls, stats>>
    /\ UNCHANGED <<normVars, extVars, toolVars>>

\* self.db.commit() succeeds, save_to_database returns True and
\* process_all_files counts the file
CommitSaved ==
    /\ path = "cleaner"
    /\ pc = "commit"
    /\ ~ViolatesNotNull(new)
    /\ db' = [db EXCEPT
                !.messages = @ \o Flushed(new.messages, Len(@)),
                !.media = @ \o new.media,
                !.business = @ \o new.business]
    /\ new' = NoRows
    /\ result' = "True"
    /\ stats' = [stats EXCEPT
                   !.files_processed = @ + 1,
                   !.channels_created = @ + 1,
                   !.messages_saved = @ + Len(messages_data),
                   !.media_files_saved = @ + Len(media_data)]
    /\ pc' = "done"
    /\ UNCHANGED <<path, raw, idx, messages_data, media_data, skipped, tx, calls>>
    /\ UNCHANGED <<normVars, extVars, toolVars>>

\* self.db.commit() raises IntegrityError (a NOT NULL column is None): the
\* handler rolls back, save_to_database returns False and process_all_files
\* counts an error
CommitFailed ==
    /\ path = "cleaner"
    /\ pc = "commit"
    /\ ViolatesNotNull(new)
    /\ new' = NoRows
    /\ result' = "False"
    /\ stats' = [stats EXCEPT !.errors = @ + 1]
    /\ pc' = "done"
    /\ UNCHANGED <<path, raw, idx, messages_data, media_data, skipped, tx, db,
                   calls>>
    /\ UNCHANGED <<normVars, extVars, toolVars>>

(***************************************************************************)
(* The scraper: scrape_channel_messages, then save_to_database, as         *)
(* scrape_all_channels calls them for one channel                          *)
(***************************************************************************)
\* The body of the loop over iter_messages
ScrapeMessage ==
    /\ path = "scraper"
    /\ pc = "process"
    /\ idx <= Len(raw)
    /\ LET message == raw[idx]
           \* message.text or ''
           arg == IF Truthy(message.text) THEN message.text ELSE PyStr(<<>>)
       IN messages_data' =
            Append(messages_data,
                   [message_id |-> message.id,
                    message_text |-> message.text,
                    media_info |-> message.photo,
                    business_info |-> scraper_extract_business_info(arg).value,
                    src |-> <<calls, idx>>])
    /\ idx' = idx + 1
    /\ UNCHANGED <<path, raw, pc, media_data, skipped, new, tx, db, result,
                   calls, stats>>
    /\ UNCHANGED <<normVars, extVars, toolVars>>

\* scrape_all_channels: "if messages_data" fails, nothing is saved
NothingScraped ==
    /\ path = "scraper"
    /\ pc = "process"
    /\ idx > Len(raw)
    /\ messages_data = <<>>
    /\ pc' = "done"
    /\ UNCHANGED <<path, raw, idx, messages_data, media_data, skipped, new, tx,
                   db, result, calls, stats>>
    /\ UNCHANGED <<normVars, extVars, toolVars>>

\* save_to_database, "Save or update channel info", and its commit
SaveOrUpdateChannel ==
    /\ path = "scraper"
    /\ pc = "process"
    /\ idx > Len(raw)
    /\ messages_data # <<>>
    /\ db' = [db EXCEPT !.channels = @ \cup {ChannelName}]
    /\ pc' = "messages"
    /\ idx' = 1
    /\ UNCHANGED <<path, raw, messages_data, media_data, skipped, new, tx,
                   result, calls, stats>>
    /\ UNCHANGED <<normVars, extVars, toolVars>>

\* AnyValue with the test dropped: a record for every message.
AnyValue_Always(info) == TRUE

\* any(business_info.values())
AnyValue(info) == \E f \in FieldNames : Truthy(info[f])

\* The body of the loop "Save messages": an existing message is skipped;
\* otherwise the message is added and flushed, which gives it its id (and
\* flushes what the message before it left in the session), and its media
\* file and business record are added with that id.
ScraperSaveMessage ==
    /\ path = "scraper"
    /\ pc = "messages"
    /\ idx <= Len(messages_data)
    /\ LET msg_data == messages_data[idx]
           id == Len(Visible("messages")) + 1
           message ==
               [TelegramMessage(msg_data.message_id, msg_data.message_text,
                                msg_data.src) EXCEPT !.id = id]
       IN IF FirstMessage(msg_data.message_id).id # 0
          THEN UNCHANGED <<new, tx>>
          ELSE /\ tx' = [tx EXCEPT
                           !.messages = Append(@, message),
                           !.media = @ \o new.media,
                           !.business = @ \o new.business]
               /\ new' = [NoRows EXCEPT
                            !.media =
                                IF msg_data.media_info
                                THEN <<MediaFile(message.id, msg_data.message_id)>>
                                ELSE <<>>,
                            !.business =
                                IF AnyValue(msg_data.business_info)
                                THEN <<BusinessInfo(message.id, msg_data.business_info,
                                                    msg_data.src)>>
                                ELSE <<>>]
    /\ pc' = IF idx < Len(messages_data) THEN "messages" ELSE "commit"
    /\ idx' = IF idx < Len(messages_data) THEN idx + 1 ELSE 1
    /\ UNCHANGED <<path, raw, messages_data, media_data, skipped, db, result,
                   calls, stats>>
    /\ UNCHANGED <<normVars, extVars, toolVars>>

\* db.commit(): what is left in the session is flushed and the transaction
\* committed
ScraperCommit ==
    /\ path = "scraper"
    /\ pc = "commit"
    /\ db' = [db EXCEPT
                !.messages = @ \o tx.messages,
                !.media = @ \o tx.media \o new.media,
                !.business = @ \o tx.business \o new.business]
    /\ new' = NoRows
    /\ tx' = NoRows
    /\ result' = "True"
    /\ pc' = "done"
    /\ UNCHANGED <<path, raw, idx, messages_data, media_data, skipped, calls,
                   stats>>
    /\ UNCHANGED <<normVars, extVars, toolVars>>

(***************************************************************************)
(* The pipelines run on a batch, and run again on the same input           *)
(***************************************************************************)
\* The next run of the script on the same input: a new session, new stats,
\* the same database.
RunAgain ==
    /\ pc = "done"
    /\ calls < MaxCalls
    /\ calls' = calls + 1
    /\ pc' = "process"
    /\ idx' = 1
    /\ messages_data' = <<>>
    /\ media_data' = <<>>
    /\ skipped' = 0
    /\ result' = "none"
    /\ stats' = NoStats
    /\ UNCHANGED <<path, raw, new, tx, db>>
    /\ UNCHANGED <<normVars, extVars, toolVars>>

Init ==
    /\ path \in {"cleaner", "scraper"}
    /\ raw \in Batches(IF path = "cleaner" THEN FileShapes ELSE ScrapedShapes)
    /\ pc = "process"
    /\ idx = 1
    /\ messages_data = <<>>
    /\ media_data = <<>>
    /\ skipped = 0
    /\ new = NoRows
    /\ tx = NoRows
    /\ db = NoRows
    /\ result = "none"
    /\ calls = 1
    /\ stats = NoStats
    /\ NormIdle
    /\ ExtIdle
    /\ ToolsIdle

Next ==
    \/ ProcessMessage
    \/ NoMessages
    \/ CreateOrGetChannel
    \/ SaveMessage
    \/ SaveMediaFile
    \/ CommitSaved
    \/ CommitFailed
    \/ ScrapeMessage
    \/ NothingScraped
    \/ SaveOrUpdateChannel
    \/ ScraperSaveMessage
    \/ ScraperCommit
    \/ RunAgain

Spec == Init /\ [][Next]_vars

(***************************************************************************)
(* Properties of the pipelines                                             *)
(***************************************************************************)
\* The business records and the messages of the session and of the database.
AllBusiness == db.business \o tx.business \o new.business
AllMessages == db.messages \o tx.messages \o new.messages

\* The message a business record was extracted from has this id.
ReferencesSource(b) ==
    \E k \in 1..Len(AllMessages) :
        /\ AllMessages[k].src = b.src
        /\ AllMessages[k].id = b.message_id

\* C2: from the moment it is built to the commit, the message reference of
\* every business record is set and is the id of the message the record was
\* extracted from, in the save path of the data cleaner too.
C2_MessageReference ==
    \A k \in 1..Len(AllBusiness) :
        /\ AllBusiness[k].message_id # 0
        /\ ReferencesSource(AllBusiness[k])

\* C3: no business record, added, flushed or committed, in either save path,
\* has all of its seven fields null.
C3_NoEmptyRecord ==
    \A k \in 1..Len(AllBusiness) : AnyValue(AllBusiness[k].fields)

\* C3: the loop over the messages is over, it built a business record for one
\* message and none for another message, whose text gave no field.
C3_Case ==
    /\ pc = "commit"
    /\ tx.business \o new.business # <<>>
    /\ \E k \in 1..Len(tx.messages \o new.messages) :
          LET m == (tx.messages \o new.messages)[k]
          IN /\ Truthy(m.message_text)
             /\ \A j \in 1..Len(AllBusiness) : AllBusiness[j].src # m.src

\* C4: in the save path of the data cleaner, every added message with a text
\* that is not empty and gives at least one of the seven fields has a business
\* record, also when the only fields are address, opening_hours or
\* delivery_info.
C4_RecordForAnyField ==
    path = "cleaner" =>
        \A k \in 1..Len(new.messages) :
            (/\ Truthy(new.messages[k].message_text)
             /\ AnyValue(extract_business_info(new.messages[k].message_text).value))
                => \E j \in 1..Len(new.business) :
                       new.business[j].src = new.messages[k].src

\* A message of a file whose text is present and is no str, and a message
\* with nothing wrong.
Malformed(msg) == msg.text.kind = "int"
Valid(msg) == msg.text.kind = "str" /\ msg.replies_ok

\* C5: when a file holds one message whose text is no usable str (the number
\* 123) among valid ones, the valid messages are all processed and exactly one
\* message is skipped as an error.
C5_OneSkipped ==
    (/\ path = "cleaner"
     /\ idx > Len(raw) \/ pc # "process"
     /\ Cardinality({k \in 1..Len(raw) : Malformed(raw[k])}) = 1
     /\ \A k \in 1..Len(raw) : Malformed(raw[k]) \/ Valid(raw[k]))
        => /\ skipped = 1
           /\ \A k \in 1..Len(raw) :
                 Valid(raw[k]) <=>
                     \E j \in 1..Len(messages_data) : messages_data[j].src[2] = k

\* The first two lines of a text are two distinct name candidates.
TwoNameLines(t) ==
    /\ Len(Split(t, "\n")) >= 2
    /\ Qualifies(Split(t, "\n")[1])
    /\ Qualifies(Split(t, "\n")[2])
    /\ Strip(Split(t, "\n")[1]) # Strip(Split(t, "\n")[2])

\* The names extracted from the text are its first and its second line.
NamesAreFirstLines(t, ext) ==
    /\ ext.business_name = PyStr(Strip(Split(t, "\n")[1]))
    /\ ext.product_name = PyStr(Strip(Split(t, "\n")[2]))

\* C10: line boundaries survive normalization: for a message of a file whose
\* first two lines are distinct name candidates, extraction from the
\* normalized text gives the first line as business_name and the second as
\* product_name.
C10_LinesKept ==
    path = "cleaner" =>
        \A k \in 1..Len(messages_data) :
            LET txt == raw[messages_data[k].src[2]].text
            IN (txt.kind = "str" /\ TwoNameLines(txt.s))
                  => NamesAreFirstLines(
                         txt.s,
                         extract_business_info(messages_data[k].message_text).value)

\* <<call, position>> of one message stands before that of another.
Before(a, b) == a[1] < b[1] \/ (a[1] = b[1] /\ a[2] < b[2])

\* The business records built in a call.
RecordsOfCall(c) == SelectSeq(AllBusiness, LAMBDA b : b.src[1] = c)

\* C11: the business records stand in the order of the messages they were
\* extracted from: their sources are a subsequence of the input order, in
\* both save paths.
C11_OrderKept ==
    \A j, k \in 1..Len(AllBusiness) :
        j < k => Before(AllBusiness[j].src, AllBusiness[k].src)

\* C11: two messages of one batch each have their business record.
C11_Case ==
    /\ Len(AllBusiness) >= 2
    /\ AllBusiness[1].src[1] = AllBusiness[2].src[1]
    /\ AllBusiness[1].src[2] = 1
    /\ AllBusiness[2].src[2] = 2

\* C12: a message has at most one business record, so a call builds no more
\* records than the batch has messages.
C12_AtMostOnePerMessage ==
    /\ \A j, k \in 1..Len(AllBusiness) :
          j # k => AllBusiness[j].src # AllBusiness[k].src
    /\ Len(RecordsOfCall(calls)) <= Len(raw)

\* C12: the loop over a batch of two messages or more is over, and it built
\* a record for one message at least and no record for another.
C12_Case ==
    /\ pc = "commit"
    /\ Len(raw) >= 2
    /\ Len(RecordsOfCall(calls)) >= 1
    /\ Len(RecordsOfCall(calls)) < Len(raw)

\* C13: a message whose text is empty or absent has no business record, in
\* both save paths.
C13_NoRecordForEmptyText ==
    /\ \A k \in 1..Len(AllBusiness) : Truthy(raw[AllBusiness[k].src[2]].text)
    /\ \A v \in {PyStr(<<>>), PyNone} :
          /\ extract_business_info(v) = Returned(BusinessExtraction)
          /\ scraper_extract_business_info(v) = Returned(BusinessExtraction)

\* C13: a message with an empty or absent text is stored without a business
\* record, next to a message that has one.
C13_Case ==
    /\ pc = "done"
    /\ db.business # <<>>
    /\ \E k \in 1..Len(db.messages) :
          /\ ~Truthy(db.messages[k].message_text)
          /\ \A j \in 1..Len(db.business) :
                db.business[j].src # db.messages[k].src

(***************************************************************************)
(* Properties of the fields                                                *)
(***************************************************************************)
\* An extractor returned from a call on a str.
ReturnedForStr == e_out.called /\ ~e_out.raised /\ e_text.kind = "str"

\* The first of the matches, or None.
FirstOrNone(matches) == IF matches # <<>> THEN PyStr(matches[1]) ELSE PyNone

\* A str is group 1 of one of the patterns of the scraper somewhere in t.
OneMatchOf(kind, t, v) ==
    \E k \in 1..3, j \in 1..Len(t) :
        /\ PatternAt(kind, k, t, j) # <<0, 0>>
        /\ v = PyStr(SubSeq(t, PatternAt(kind, k, t, j)[1],
                            PatternAt(kind, k, t, j)[2] - 1))

\* C14: price is the first match only, never the list of the matches: the
\* first price of the text for the data cleaner, one match of one pattern for
\* the scraper, and null when nothing matches.
C14_FirstPrice ==
    ReturnedForStr =>
        IF e_impl = "cleaner"
        THEN e_out.value.price = FirstOrNone(findall("price", e_text.s))
        ELSE \/ OneMatchOf("price", e_text.s, e_out.value.price)
             \/ /\ e_out.value.price = PyNone
                /\ \A k \in 1..3 : SearchGroup("price", k, e_text.s) = <<0, 0>>

\* C15: contact_info is every phone match of the text, joined with ", " in
\* the order of the text, and null when there is none, for both extractors.
C15_AllPhonesJoined ==
    ReturnedForStr =>
        e_out.value.contact_info = JoinOrNone(findall("phone", e_text.s))

\* The keywords an extractor looks for.
KeywordsOf(impl) == IF impl = "cleaner" THEN DeliveryWords ELSE delivery_keywords

\* A sentence holds one of the keywords, in any case.
HoldsKeyword(sentence, kws) ==
    \E k \in 1..Len(kws) : Contains(LowerStr(sentence), LowerStr(kws[k]))

\* The first of the sentences that holds a keyword, trimmed, or None.
FirstKeywordSentence(sentences, kws) ==
    IF \E k \in 1..Len(sentences) : HoldsKeyword(sentences[k], kws)
    THEN PyStr(Strip(sentences[Least({k \in 1..Len(sentences) :
                                         HoldsKeyword(sentences[k], kws)})]))
    ELSE PyNone

\* C16: delivery_info is the first '.'-delimited sentence of the text that
\* holds a delivery keyword, trimmed (the whole text when it has no '.'), and
\* null when the text holds no delivery keyword.
C16_DeliverySentence ==
    ReturnedForStr =>
        e_out.value.delivery_info =
            FirstKeywordSentence(Split(e_text.s, "."), KeywordsOf(e_impl))

\* re.sub(business_patterns[name], '', t) from position i
RECURSIVE RemoveAllFrom(_, _, _)

RestWithout(name, t, i, starts) ==
    IF starts = {} THEN SubSeq(t, i, Len(t))
    ELSE SubSeq(t, i, Least(starts) - 1)
            \o RemoveAllFrom(name, t, business_patterns(name, t, Least(starts)))

RemoveAllFrom(name, t, i) == RestWithout(name, t, i, MatchStarts(name, t, i))

\* The extraction of the called extractor from another text.
SameExtractor(impl, t) ==
    IF impl = "cleaner" THEN extract_business_info(PyStr(t)).value
    ELSE scraper_extract_business_info(PyStr(t)).value

\* Two extractions give the same price, address and opening_hours.
SameUnrelatedFields(a, b) ==
    /\ a.price = b.price
    /\ a.address = b.address
    /\ a.opening_hours = b.opening_hours

\* C17: the fields that are no phone field are independent of the phone-like
\* part of the text: the text with its phone numbers removed gives the same
\* price, address and opening_hours.
C17_IndependentOfPhone ==
    ReturnedForStr =>
        SameUnrelatedFields(
            e_out.value,
            SameExtractor(e_impl, RemoveAllFrom("phone", e_text.s, 1)))

(***************************************************************************)
(* Properties of the stored rows                                           *)
(***************************************************************************)
\* C19: the stored messages of the data cleaner hold one row at most for a
\* message_id of the channel, also when a batch holds a message_id twice and
\* when a batch is saved again by a later call.
C19_OneRowPerMessage ==
    path = "cleaner" =>
        \A j, k \in 1..Len(db.messages) :
            j # k => db.messages[j].message_id # db.messages[k].message_id

\* C20: when save_to_database of the data cleaner returns False, the database
\* holds the rows it held before the call; before the first call it holds
\* none.
C20_FailedCallWritesNothing ==
    (path = "cleaner" /\ calls = 1 /\ result = "False") => db = NoRows

\* The rows of the messages a call inserted.
InsertedBy(c) == SelectSeq(db.messages, LAMBDA m : m.src[1] = c)

\* A media file row is linked to the message row.
HasMediaRow(m) ==
    \E k \in 1..Len(db.media) : db.media[k].message_id = m.id

\* C21: after a save_to_database of the data cleaner that returned True, each
\* media item of the batch whose message was inserted by that call has a
\* media file row linked to that message.
C21_MediaOfNewMessages ==
    (path = "cleaner" /\ pc = "done" /\ result = "True") =>
        \A k \in 1..Len(media_data) :
            \A j \in 1..Len(InsertedBy(calls)) :
                InsertedBy(calls)[j].message_id = media_data[k].message_id
                    => HasMediaRow(InsertedBy(calls)[j])

\* C22: after process_all_files, stats['messages_saved'] is the number of
\* message rows the run inserted; messages skipped as existing are not
\* counted.
C22_MessagesSavedCount ==
    (path = "cleaner" /\ pc = "done") =>
        stats.messages_saved = Len(InsertedBy(calls))

(***************************************************************************)
(* The object detector: TelegramObjectDetector.process_media_files         *)
(* (scripts/object_detection.py)                                           *)
(*                                                                         *)
(* The id of a media file is its position in media_table.  A file is of a  *)
(* kind: its file_type, whether its file_path exists, the number of        *)
(* objects the model detects in it, and whether the commit of its          *)
(* detections succeeds.                                                    *)
(***************************************************************************)
MaxFiles == 2

MediaKind(file_type, on_disk, objects, commit) ==
    [file_type |-> file_type, on_disk |-> on_disk, objects |-> objects,
     commit |-> commit]

\* A video, an image that is not on the disk, images with no object and with
\* two objects, and an image whose detections the database refuses.
MediaKinds ==
    {MediaKind("video", TRUE, 0, "ok"), MediaKind("image", FALSE, 0, "ok"),
     MediaKind("image", TRUE, 0, "ok"), MediaKind("image", TRUE, 2, "ok"),
     MediaKind("image", TRUE, 2, "fails")}

\* limit: None (0) or a number of files
Limits == {0, 1}

\* DetectedObject(media_file_id=..., ...), with the run that added it
DetectedObject(media_file_id, run) == [media_file_id |-> media_file_id, run |-> run]

\* filter(file_type == 'image').outerjoin(DetectedObject).filter(
\* DetectedObject.id.is_(None)): the images with no detected_objects row
Unprocessed ==
    {f \in 1..Len(media_table) :
        /\ media_table[f].file_type = "image"
        /\ \A k \in 1..Len(detected_objects) :
              detected_objects[k].media_file_id # f}

\* The sequences of n of the files, by id.
Ascending(files, n) ==
    {q \in [1..n -> files] : \A j, k \in 1..n : j < k => q[j] < q[k]}

\* query.all(), after query.limit(limit) when limit is truthy: the query has
\* no ORDER BY, so a limit keeps any of the rows
Selected(limit) ==
    IF limit = 0 \/ limit >= Cardinality(Unprocessed)
    THEN Ascending(Unprocessed, Cardinality(Unprocessed))
    ELSE Ascending(Unprocessed, limit)

\* The part of the state the object detector leaves alone.
notDetVars == <<normVars, extVars, pipeVars, migVars, intVars>>

\* The query and the new stats
QueryMediaFiles ==
    /\ det_pc = "query"
    /\ \E limit \in Limits : media_files' \in Selected(limit)
    /\ det_stats' = [NoDetectorStats EXCEPT !.total_files = Len(media_files')]
    /\ det_idx' = 1
    /\ det_pc' = "loop"
    /\ UNCHANGED <<media_table, detected_objects, det_run, processed, notDetVars>>

\* stats['failed'] += 1, dropped
Failed_NotCounted(st) == st

\* stats['failed'] += 1
Failed(st) == [st EXCEPT !.failed = @ + 1]

\* stats['processed'] += 1; stats['total_detections'] += len(detections)
Processed(st, n) ==
    [st EXCEPT !.processed = @ + 1, !.total_detections = @ + n]

\* The file the loop is at.
Current == media_table[media_files[det_idx]]

\* "if not os.path.exists(media_file.file_path)": failed, continue
FileNotFound ==
    /\ det_pc = "loop"
    /\ det_idx <= Len(media_files)
    /\ ~Current.on_disk
    /\ det_stats' = Failed(det_stats)
    /\ det_idx' = det_idx + 1
    /\ UNCHANGED <<media_table, detected_objects, det_pc, media_files, det_run,
                   processed, notDetVars>>

\* The detections of the file are added and committed, and the file counted
DetectAndCommit ==
    /\ det_pc = "loop"
    /\ det_idx <= Len(media_files)
    /\ Current.on_disk
    /\ Current.commit = "ok"
    /\ detected_objects' =
          detected_objects \o
             [k \in 1..Current.objects |->
                 DetectedObject(media_files[det_idx], det_run)]
    /\ det_stats' = Processed(det_stats, Current.objects)
    /\ processed' = processed \cup {<<media_files[det_idx], det_run>>}
    /\ det_idx' = det_idx + 1
    /\ UNCHANGED <<media_table, det_pc, media_files, det_run, notDetVars>>

\* self.db.commit() raises: the handler logs, counts the file as failed and
\* rolls back, so none of its detections is stored
CommitRaises ==
    /\ det_pc = "loop"
    /\ det_idx <= Len(media_files)
    /\ Current.on_disk
    /\ Current.commit = "fails"
    /\ det_stats' = Failed(det_stats)
    /\ det_idx' = det_idx + 1
    /\ UNCHANGED <<media_table, detected_objects, det_pc, media_files, det_run,
                   processed, notDetVars>>

\* self.db.commit() raises and the handler raises in its turn: it reads
\* media_file.file_path for the log before the rollback, and the failed flush
\* may have expired the object, which the session cannot reload then.  The
\* exception leaves process_media_files, which returns nothing.
HandlerRaises ==
    /\ det_pc = "loop"
    /\ det_idx <= Len(media_files)
    /\ Current.on_disk
    /\ Current.commit = "fails"
    /\ det_pc' = "raised"
    /\ UNCHANGED <<media_table, detected_objects, det_idx, media_files,
                   det_stats, det_run, processed, notDetVars>>

\* return stats
ReturnStats ==
    /\ det_pc = "loop"
    /\ det_idx > Len(media_files)
    /\ det_pc' = "done"
    /\ UNCHANGED <<media_table, detected_objects, det_idx, media_files,
                   det_stats, det_run, processed, notDetVars>>

\* The next run of the script on the same database
DetectAgain ==
    /\ det_pc \in {"done", "raised"}
    /\ det_run < MaxCalls
    /\ det_run' = det_run + 1
    /\ det_pc' = "query"
    /\ det_idx' = 0
    /\ media_files' = <<>>
    /\ det_stats' = NoDetectorStats
    /\ UNCHANGED <<media_table, detected_objects, processed, notDetVars>>

DetectInit ==
    /\ media_table \in UNION {[1..n -> MediaKinds] : n \in 0..MaxFiles}
    /\ detected_objects = <<>>
    /\ det_pc = "query"
    /\ det_idx = 0
    /\ media_files = <<>>
    /\ det_stats = NoDetectorStats
    /\ det_run = 1
    /\ processed = {}
    /\ NormIdle
    /\ ExtIdle
    /\ PipeIdle
    /\ MigIdle
    /\ IntIdle

DetectNext ==
    \/ QueryMediaFiles
    \/ FileNotFound
    \/ DetectAndCommit
    \/ CommitRaises
    \/ HandlerRaises
    \/ ReturnStats
    \/ DetectAgain

SpecDetect == DetectInit /\ [][DetectNext]_vars

\* C23: a file that a run processed and counted in 'processed' is selected by
\* no later run, whatever the number of objects detected in it.
C23_ProcessedOnce ==
    det_pc = "loop" =>
        \A k \in 1..Len(media_files) :
            \A r \in 1..(det_run - 1) : <<media_files[k], r>> \notin processed

\* The detected_objects rows a run committed.
CommittedBy(r) == SelectSeq(detected_objects, LAMBDA d : d.run = r)

\* C24: when process_media_files returns, processed + failed is total_files,
\* total_detections is the number of rows the run committed, and a file whose
\* commit failed has no row.
C24_StatsAddUp ==
    det_pc = "done" =>
        /\ det_stats.processed + det_stats.failed = det_stats.total_files
        /\ det_stats.total_detections = Len(CommittedBy(det_run))
        /\ \A k \in 1..Len(media_files) :
              media_table[media_files[k]].commit = "fails" =>
                 \A j \in 1..Len(detected_objects) :
                     detected_objects[j].media_file_id # media_files[k]

\* C24: the run returned after it committed the detections of one file and
\* the commit of another file failed.
C24_Case ==
    /\ det_pc = "done"
    /\ det_stats.processed >= 1
    /\ det_stats.total_detections >= 1
    /\ det_stats.failed >= 1
    /\ \E k \in 1..Len(media_files) :
          media_table[media_files[k]].commit = "fails"

(***************************************************************************)
(* The migration of a table from SQLite to PostgreSQL: migrate_table       *)
(* (migrate_to_postgresql.py)                                              *)
(*                                                                         *)
(* A table is the sequence of its rows; the source does not change while   *)
(* the function runs.  mig_pc is the statement migrate_table is at.        *)
(***************************************************************************)
MaxRows == 4
MaxBatchSize == 3

\* The rows of the source are numbered; the target holds nothing, a row of
\* the source or a row the source does not have (row 0).
SourceTables == {[k \in 1..n |-> k] : n \in 0..MaxRows}
TargetTables == {<<>>, <<1>>, <<0>>}

\* The part of the state the migration leaves alone.
notMigVars == <<normVars, extVars, pipeVars, detVars, intVars>>

\* SELECT COUNT(*), and "if total_rows == 0: return 0"
CountRows ==
    /\ mig_pc = "count"
    /\ total_rows' = Len(sqlite_table)
    /\ IF Len(sqlite_table) = 0
       THEN mig_pc' = "done" /\ migrated' = 0
       ELSE mig_pc' = "truncate" /\ UNCHANGED migrated
    /\ UNCHANGED <<sqlite_table, pg_table, batch_size, offset, migrated_rows,
                   notMigVars>>

\* TRUNCATE TABLE ..., then offset = 0 and migrated_rows = 0
TruncateTable ==
    /\ mig_pc = "truncate"
    /\ pg_table' = <<>>
    /\ offset' = 0
    /\ migrated_rows' = 0
    /\ mig_pc' = "loop"
    /\ UNCHANGED <<sqlite_table, batch_size, total_rows, migrated, notMigVars>>

\* SELECT ... LIMIT limit OFFSET off, every batch the first rows
Batch_FromStart(table, limit, off) ==
    SubSeq(table, 1, IF limit < Len(table) THEN limit ELSE Len(table))

\* SELECT ... LIMIT limit OFFSET off
Batch(table, limit, off) ==
    SubSeq(table, off + 1, IF off + limit < Len(table) THEN off + limit ELSE Len(table))

\* The rows of a batch are inserted and counted.
Inserted(rows) ==
    /\ pg_table' = pg_table \o rows
    /\ migrated_rows' = migrated_rows + Len(rows)
    /\ offset' = offset + batch_size
    /\ UNCHANGED mig_pc

\* The body of "while offset < total_rows": a batch is fetched and inserted;
\* an empty batch breaks the loop
MigrateBatch ==
    /\ mig_pc = "loop"
    /\ offset < total_rows
    /\ IF Batch(sqlite_table, batch_size, offset) = <<>>
       THEN mig_pc' = "commit" /\ UNCHANGED <<pg_table, migrated_rows, offset>>
       ELSE Inserted(Batch(sqlite_table, batch_size, offset))
    /\ UNCHANGED <<sqlite_table, batch_size, total_rows, migrated, notMigVars>>

\* The condition of the while fails
LoopOver ==
    /\ mig_pc = "loop"
    /\ offset >= total_rows
    /\ mig_pc' = "commit"
    /\ UNCHANGED <<sqlite_table, pg_table, batch_size, total_rows, offset,
                   migrated_rows, migrated, notMigVars>>

\* pg_conn.commit(); return migrated_rows
CommitMigration ==
    /\ mig_pc = "commit"
    /\ migrated' = migrated_rows
    /\ mig_pc' = "done"
    /\ UNCHANGED <<sqlite_table, pg_table, batch_size, total_rows, offset,
                   migrated_rows, notMigVars>>

MigrateInit ==
    /\ sqlite_table \in SourceTables
    /\ pg_table \in TargetTables
    /\ batch_size \in 1..MaxBatchSize
    /\ total_rows = 0
    /\ offset = 0
    /\ migrated_rows = 0
    /\ migrated = 0
    /\ mig_pc = "count"
    /\ NormIdle
    /\ ExtIdle
    /\ PipeIdle
    /\ DetIdle
    /\ IntIdle

MigrateNext ==
    \/ CountRows
    \/ TruncateTable
    \/ MigrateBatch
    \/ LoopOver
    \/ CommitMigration

SpecMigrate == MigrateInit /\ [][MigrateNext]_vars

\* migrate_table runs on: no statement of it waits for ever.
FairSpecMigrate == SpecMigrate /\ WF_vars(MigrateNext)

\* C25: after migrate_table returned, the PostgreSQL table holds the rows of
\* the SQLite table and no other, also when the source is empty and the
\* target is not.
C25_TargetReplaced == mig_pc = "done" => pg_table = sqlite_table

\* C26: for every size of the source and every batch_size >= 1 the loop of
\* migrate_table ends, and the function returns the number of the rows of the
\* source, each inserted once.
C26_Terminates ==
    /\ <>(mig_pc = "done")
    /\ [](mig_pc = "done" =>
            /\ migrated = Len(sqlite_table)
            /\ total_rows > 0 => pg_table = sqlite_table)

\* C26: the function returned after a loop of two batches or more, the last
\* of them not full.
C26_Case ==
    /\ mig_pc = "done"
    /\ batch_size > 1
    /\ total_rows > batch_size
    /\ total_rows % batch_size # 0
    /\ migrated = total_rows

(***************************************************************************)
(* The integration pipeline: TelegramDataIntegrator (run_integration.py)   *)
(*                                                                         *)
(* env is what the run finds on the machine.  A step function returns      *)
(* "True" or "False", or raises an exception it does not catch.            *)
(***************************************************************************)

\* setup_environment: the .env file and the scraped data must exist
setup_environment(e) ==
    IF ~e.env_file THEN "False"
    ELSE IF ~e.scraped_data THEN "False"
    ELSE "True"

\* install_dependencies: pip install, then dbt deps when the dbt project
\* exists; only CalledProcessError is caught.  --skip-deps replaces the
\* method by one that returns True.
install_dependencies(e) ==
    IF e.skip_deps THEN "True"
    ELSE IF ~e.pip_installs THEN "False"
    ELSE IF ~e.dbt_project THEN "True"
    ELSE IF ~e.dbt_installed THEN "Raises"
    ELSE IF ~e.dbt_deps THEN "False"
    ELSE "True"

\* setup_database: get_database_engine is a name the function never imports
\* and the module never defines; the NameError is caught and False returned
setup_database(e) == "False"

\* migrate_scraped_data: every exception of the migration is caught
migrate_scraped_data(e) == IF e.migration THEN "True" ELSE "False"

\* run_dbt_pipeline: dbt debug, dbt run, dbt test; only CalledProcessError
\* is caught
run_dbt_pipeline(e) ==
    IF ~e.dbt_project THEN "False"
    ELSE IF ~e.dbt_installed THEN "Raises"
    ELSE IF ~e.dbt_run THEN "False"
    ELSE "True"

\* The list steps of run_complete_integration
StepNames ==
    <<"Environment Setup", "Install Dependencies", "Database Setup",
      "Data Migration", "dbt Pipeline">>

\* step_func() of the k-th entry of steps
StepFunc(k, e) ==
    CASE k = 1 -> setup_environment(e)
      [] k = 2 -> install_dependencies(e)
      [] k = 3 -> setup_database(e)
      [] k = 4 -> migrate_scraped_data(e)
      [] k = 5 -> run_dbt_pipeline(e)

\* generate_summary_report: the import of get_database_engine fails, the
\* exception is caught and nothing is printed or saved
generate_summary_report(e) == "failed"

\* "if not step_func()"
StepFailed(returned) == returned = "False"

\* The step ran and what it returned is known.
StepRan(k, returned) ==
    /\ ran' = Append(ran, [name |-> StepNames[k], returned |-> returned])
    /\ IF returned = "Raises"
       THEN int_pc' = "raised" /\ UNCHANGED <<int_result, report>>
       ELSE IF StepFailed(returned)
       THEN int_pc' = "returned" /\ int_result' = "False" /\ UNCHANGED report
       ELSE IF k < Len(StepNames)
       THEN UNCHANGED <<int_pc, int_result, report>>
       ELSE /\ report' = generate_summary_report(env)
            /\ int_result' = "True"
            /\ int_pc' = "returned"

\* One turn of "for step_name, step_func in steps"; after the last step the
\* summary report and "return True"
RunStep ==
    /\ int_pc = "steps"
    /\ StepRan(Len(ran) + 1, StepFunc(Len(ran) + 1, env))
    /\ UNCHANGED <<env, normVars, extVars, pipeVars, detVars, migVars>>

IntegrateInit ==
    /\ env \in Environments
    /\ int_pc = "steps"
    /\ ran = <<>>
    /\ int_result = "none"
    /\ report = "none"
    /\ NormIdle
    /\ ExtIdle
    /\ PipeIdle
    /\ DetIdle
    /\ MigIdle

IntegrateNext == RunStep

SpecIntegrate == IntegrateInit /\ [][IntegrateNext]_vars

\* C27: run_complete_integration runs its steps in the order Environment
\* Setup, Install Dependencies, Database Setup, Data Migration, dbt Pipeline;
\* a step runs only if every step before it returned True; at the first step
\* that returns False the run returns False and no later step runs; the
\* report is made and True returned only after the five steps returned True.
C27_StepsInOrder ==
    /\ Len(ran) <= Len(StepNames)
    /\ \A k \in 1..Len(ran) :
          /\ ran[k].name = StepNames[k]
          /\ \A j \in 1..(k - 1) : ran[j].returned = "True"
    /\ (Len(ran) > 0 /\ ran[Len(ran)].returned = "False") =>
          int_pc = "returned" /\ int_result = "False"
    /\ int_result = "False" => ran[Len(ran)].returned = "False"
    /\ (int_result = "True" \/ report # "none") =>
          /\ Len(ran) = Len(StepNames)
          /\ \A k \in 1..Len(ran) : ran[k].returned = "True"

\* The machine has all that the five steps ask for.
Ready(e) == \A f \in DOMAIN e \ {"skip_deps"} : e[f]

C27_Case ==
    /\ int_pc = "returned"
    /\ int_result = "False"
    /\ Len(ran) > 1
    /\ Len(ran) < Len(StepNames)
    /\ ran[Len(ran)].returned = "False"

====
